---- MODULE Spec2Model ----
(***************************************************************************)
(* Model of src/src/ingest_data.py: the extension registry, get_ingestor,  *)
(* and the three ingestors (unsupported, zip, csv) acting on a filesystem. *)
(*                                                                         *)
(* A path is a sequence of names; a name is kept split into the stem and   *)
(* the suffix pathlib computes for it.  The filesystem maps each existing  *)
(* path to its content: a directory, a csv text (header line and data      *)
(* lines), a zip archive (a set of members, each a relative path and a     *)
(* content), or some other text.                                           *)
(***************************************************************************)
EXTENDS Integers, Sequences, FiniteSets, TLC

VARIABLES fs, scanOrder, calls, last

vars == <<fs, scanOrder, calls, last>>

\* Bounds of the model.
MaxCalls == 2
MaxDepth == 2
MaxRows == 2

Range(s) == {s[i] : i \in 1..Len(s)}

(***************************************************************************)
(* pathlib                                                                 *)
(***************************************************************************)
Name(stem, ext) == [stem |-> stem, ext |-> ext]

Suffix(path) == path[Len(path)].ext

Stem(path) == path[Len(path)].stem

Parent(path) == SubSeq(path, 1, Len(path) - 1)

IsUnder(dir, q) == Len(q) >= Len(dir) /\ SubSeq(q, 1, Len(dir)) = dir

(***************************************************************************)
(* File contents                                                           *)
(***************************************************************************)
Dir == [kind |-> "dir", lines |-> <<>>, entries |-> {}]

Csv(lines) == [kind |-> "csv", lines |-> lines, entries |-> {}]

Txt == [kind |-> "txt", lines |-> <<>>, entries |-> {}]

Zip(entries) == [kind |-> "zip", lines |-> <<>>, entries |-> entries]

Entry(path, content) == [path |-> path, content |-> content]

is_file(f, q) == q \in DOMAIN f /\ f[q].kind # "dir"

(***************************************************************************)
(* Results of an ingest call: a table, None, or a raised exception.        *)
(***************************************************************************)
None == [tag |-> "none", exc |-> "", cols |-> <<>>, rows |-> <<>>]

Raise(exc) == [tag |-> "raise", exc |-> exc, cols |-> <<>>, rows |-> <<>>]

Table(cols, rows) == [tag |-> "table", exc |-> "", cols |-> cols, rows |-> rows]

NaN == <<"NaN", 0, 0>>

Event(ev, path, by) == [ev |-> ev, path |-> path, by |-> by]

(***************************************************************************)
(* zipfile.ZipFile.extractall(dest): every member is written at            *)
(* dest/<member path>, replacing a file already there; the directories     *)
(* above a member are made when missing, existing ones are kept; nothing   *)
(* else is touched.  An archive with no member creates nothing, not even   *)
(* dest.                                                                   *)
(***************************************************************************)
ExtractAllBeside(f, dest, entries) ==
  LET written == {Parent(dest) \o e.path : e \in entries}
      member(q) == CHOOSE e \in entries : Parent(dest) \o e.path = q
      upper == UNION {{SubSeq(q, 1, k) : k \in 1..(Len(q) - 1)} : q \in written}
  IN  [q \in DOMAIN f \cup written \cup upper |->
         IF q \in written /\ ~(member(q).content.kind = "dir" /\ q \in DOMAIN f)
           THEN member(q).content
         ELSE IF q \in DOMAIN f THEN f[q] ELSE Dir]

ExtractAll(f, dest, entries) ==
  LET written == {dest \o e.path : e \in entries}
      member(q) == CHOOSE e \in entries : dest \o e.path = q
      upper == UNION {{SubSeq(q, 1, k) : k \in 1..(Len(q) - 1)} : q \in written}
  IN  [q \in DOMAIN f \cup written \cup upper |->
         IF q \in written /\ ~(member(q).content.kind = "dir" /\ q \in DOMAIN f)
           THEN member(q).content
         ELSE IF q \in DOMAIN f THEN f[q] ELSE Dir]

(***************************************************************************)
(* Path.glob("**/*"): the directories below dir are walked parents first,  *)
(* and each walked directory yields all its children, in the order the     *)
(* filesystem lists them (ord).  A directory that does not exist yields    *)
(* nothing.                                                                *)
(***************************************************************************)
Listing(f, dir, ord) ==
  LET present == SelectSeq(ord, LAMBDA n : (dir \o <<n>>) \in DOMAIN f)
  IN  [i \in 1..Len(present) |-> dir \o <<present[i]>>]

RECURSIVE Walk(_, _, _)
RECURSIVE WalkEach(_, _, _)

WalkEach(f, dirs, ord) ==
  IF dirs = <<>> THEN <<>>
  ELSE Walk(f, Head(dirs), ord) \o WalkEach(f, Tail(dirs), ord)

Walk(f, dir, ord) ==
  LET kids == Listing(f, dir, ord)
      subdirs == SelectSeq(kids, LAMBDA q : f[q].kind = "dir")
  IN  kids \o WalkEach(f, subdirs, ord)

Glob(f, dir, ord) == Walk(f, dir, ord)

(***************************************************************************)
(* pandas.read_csv: the first line names the columns, every further line   *)
(* is one row; a file with no line at all raises EmptyDataError.           *)
(***************************************************************************)
ReadCsvNoHeader(content) ==
  IF content.lines = <<>> THEN Raise("EmptyDataError")
  ELSE Table(Head(content.lines), content.lines)

ReadCsv(content) ==
  IF content.lines = <<>> THEN Raise("EmptyDataError")
  ELSE Table(Head(content.lines), Tail(content.lines))

(***************************************************************************)
(* pandas.concat(objs): None entries are dropped; an empty list and a list *)
(* of None only raise ValueError; otherwise the frames are stacked in list *)
(* order over the union of their columns (first seen first), a missing     *)
(* cell being NaN.                                                         *)
(***************************************************************************)
IndexOf(s, x) == CHOOSE i \in 1..Len(s) : s[i] = x

AppendNew(cols, more) == cols \o SelectSeq(more, LAMBDA c : c \notin Range(cols))

Realign(row, from, to) ==
  [j \in 1..Len(to) |-> IF to[j] \in Range(from) THEN row[IndexOf(from, to[j])] ELSE NaN]

RECURSIVE UnionCols(_)
UnionCols(frames) ==
  IF frames = <<>> THEN <<>>
  ELSE LET init == UnionCols(SubSeq(frames, 1, Len(frames) - 1))
       IN  AppendNew(init, frames[Len(frames)].cols)

RECURSIVE StackRows(_, _)
StackRows(frames, cols) ==
  IF frames = <<>> THEN <<>>
  ELSE LET t == Head(frames)
       IN  [i \in 1..Len(t.rows) |-> Realign(t.rows[i], t.cols, cols)]
             \o StackRows(Tail(frames), cols)

RECURSIVE StackRowsReversed(_, _)
StackRowsReversed(frames, cols) ==
  IF frames = <<>> THEN <<>>
  ELSE LET t == Head(frames)
       IN  StackRowsReversed(Tail(frames), cols)
             \o [i \in 1..Len(t.rows) |-> Realign(t.rows[i], t.cols, cols)]

PdConcatReversed(objs) ==
  LET frames == SelectSeq(objs, LAMBDA o : o.tag = "table")
  IN  IF frames = <<>> THEN Raise("ValueError")
      ELSE Table(UnionCols(frames), StackRowsReversed(frames, UnionCols(frames)))

PdConcat(objs) ==
  LET frames == SelectSeq(objs, LAMBDA o : o.tag = "table")
  IN  IF frames = <<>> THEN Raise("ValueError")
      ELSE Table(UnionCols(frames), StackRows(frames, UnionCols(frames)))

(***************************************************************************)
(* The registry and the resolver.  A resolver result is the ingestor's     *)
(* class name with what the resolver printed.                              *)
(***************************************************************************)
EXTENSION_TO_INGESTOR ==
  [e \in {".zip", ".csv"} |-> IF e = ".zip" THEN "ZipIngestor" ELSE "CSVIngestor"]

get_ingestor_csv_default(path, by) ==
  LET extension == Suffix(path)
  IN  [ingestor |-> IF extension \in DOMAIN EXTENSION_TO_INGESTOR
                      THEN EXTENSION_TO_INGESTOR[extension]
                      ELSE "CSVIngestor",
       log |-> <<Event("resolve", path, by)>>]

get_ingestor(path, by) ==
  LET extension == Suffix(path)
  IN  [ingestor |-> IF extension \in DOMAIN EXTENSION_TO_INGESTOR
                      THEN EXTENSION_TO_INGESTOR[extension]
                      ELSE "UnsupportedIngestor",
       log |-> <<Event("resolve", path, by)>>
                 \o IF extension \notin DOMAIN EXTENSION_TO_INGESTOR
                      THEN <<Event("print", path, by)>>
                      ELSE <<>>]

(***************************************************************************)
(* The ingestors.  Each takes the path, the filesystem f, the listing      *)
(* order ord and the archive whose ingestion asked for it (by, <<>> for a  *)
(* call from outside), and gives the filesystem afterwards, the result     *)
(* (res), the trace of what was done (log) and, for an archive, the files  *)
(* enumerated (found) and the per-file results handed to concat (objs).    *)
(***************************************************************************)
Outcome(f, res, log, found, objs) ==
  [fs |-> f, res |-> res, log |-> log, found |-> found, objs |-> objs]

UnsupportedIngest(path, f, by) ==
  Outcome(f, None, <<Event("noop", path, by)>>, <<>>, <<>>)

CSVIngest(path, f, by) ==
  Outcome(f, ReadCsv(f[path]), <<Event("read", path, by)>>, <<>>, <<>>)

extracted_path(path) == Parent(path) \o <<Name(Stem(path), "")>>

found_files(f, dir, ord) == SelectSeq(Glob(f, dir, ord), LAMBDA q : is_file(f, q))

\* The order of one archive ingestion: extraction, then the per-file loop.
ZipTraceLazy(path, by, loopLog) == loopLog \o <<Event("extract", path, by)>>

ZipTrace(path, by, loopLog) == <<Event("extract", path, by)>> \o loopLog

RECURSIVE Ingest(_, _, _, _)
RECURSIVE IngestEach(_, _, _, _)

\* The list comprehension of line 48: the files in order, each on the
\* filesystem the earlier ones left; an exception ends it.
IngestEach(files, f, ord, by) ==
  IF files = <<>> THEN [fs |-> f, objs |-> <<>>, log |-> <<>>, exc |-> None]
  ELSE LET one == Ingest(Head(files), f, ord, by)
       IN  IF one.res.tag = "raise"
             THEN [fs |-> one.fs, objs |-> <<>>, log |-> one.log, exc |-> one.res]
             ELSE LET rest == IngestEach(Tail(files), one.fs, ord, by)
                  IN  [fs |-> rest.fs, objs |-> <<one.res>> \o rest.objs,
                       log |-> one.log \o rest.log, exc |-> rest.exc]

ZipIngest(path, f, ord, by) ==
  IF f[path].kind # "zip"
    THEN Outcome(f, Raise("BadZipFile"), <<Event("raise", path, by)>>, <<>>, <<>>)
  ELSE
    LET dest == extracted_path(path)
        f1 == ExtractAll(f, dest, f[path].entries)
        found == found_files(f1, dest, ord)
    IN  IF found = <<>>
          THEN Outcome(f1, Raise("FileNotFoundError"),
                       ZipTrace(path, by, <<Event("raise", path, by)>>), found, <<>>)
        ELSE
          LET loop == IngestEach(found, f1, ord, path)
          IN  IF loop.exc.tag = "raise"
                THEN Outcome(loop.fs, loop.exc, ZipTrace(path, by, loop.log), found, loop.objs)
              ELSE
                LET res == PdConcat(loop.objs)
                IN  Outcome(loop.fs, res,
                            ZipTrace(path, by,
                              loop.log \o IF res.tag = "raise"
                                            THEN <<Event("raise", path, by)>>
                                            ELSE <<Event("concat", path, by)>>),
                            found, loop.objs)

\* get_ingestor(path).ingest(path)
Ingest(path, f, ord, by) ==
  LET got == get_ingestor(path, by)
      out == CASE got.ingestor = "ZipIngestor" -> ZipIngest(path, f, ord, by)
               [] got.ingestor = "CSVIngestor" -> CSVIngest(path, f, by)
               [] OTHER -> UnsupportedIngest(path, f, by)
  IN  [out EXCEPT !.log = got.log \o out.log]

(***************************************************************************)
(* The filesystems the program is started on: a directory data/ holding    *)
(* either loose files or one archive top.zip.                              *)
(***************************************************************************)
DATA == Name("data", "")
TOP_ZIP == Name("top", ".zip")
A_CSV == Name("a", ".csv")
B_CSV == Name("b", ".csv")
UPPER_CSV == Name("B", ".CSV")
NOTES_TXT == Name("notes", ".txt")
README == Name("README", "")
INNER_ZIP == Name("inner", ".zip")
INNER == Name("inner", "")

Header == <<"id", "v">>
OtherHeader == <<"id", "w">>

\* A csv text of n data lines under the given header; tag keeps the lines of
\* different files apart.
CsvFile(tag, n, header) ==
  Csv(<<header>> \o [k \in 1..n |-> <<<<"id", tag, k>>, <<"val", tag, k>>>>])

\* An archive nested d deep: a csv and, below the top, the archive one less deep.
RECURSIVE Nest(_)
Nest(d) ==
  IF d = 0 THEN {Entry(<<A_CSV>>, CsvFile(d + 10, 1, Header))}
  ELSE {Entry(<<A_CSV>>, CsvFile(d + 10, 1, Header)),
        Entry(<<INNER_ZIP>>, Zip(Nest(d - 1)))}

Archives ==
  {{Entry(<<A_CSV>>, CsvFile(1, n, Header)), Entry(<<B_CSV>>, CsvFile(2, 1, Header))}
     : n \in 1..MaxRows}
  \cup {Nest(d) : d \in 1..MaxDepth}
  \cup {
    {},
    {Entry(<<INNER>>, Dir)},
    {Entry(<<A_CSV>>, CsvFile(1, 1, Header)), Entry(<<NOTES_TXT>>, Txt),
     Entry(<<B_CSV>>, CsvFile(2, 1, Header))},
    {Entry(<<NOTES_TXT>>, Txt)},
    {Entry(<<A_CSV>>, CsvFile(1, 1, Header)), Entry(<<B_CSV>>, CsvFile(2, 1, OtherHeader))},
    {Entry(<<INNER, A_CSV>>, CsvFile(1, 1, Header)), Entry(<<B_CSV>>, CsvFile(2, 1, Header))},
    {Entry(<<INNER_ZIP>>, Zip({})), Entry(<<INNER, A_CSV>>, CsvFile(1, 1, Header))},
    {Entry(<<INNER_ZIP>>, Zip({Entry(<<A_CSV>>, CsvFile(1, 1, Header))})),
     Entry(<<INNER, B_CSV>>, CsvFile(2, 1, Header))}
  }

LooseFiles(n) ==
  (<<DATA>> :> Dir)
    @@ (<<DATA, A_CSV>> :> CsvFile(1, n, Header))
    @@ (<<DATA, UPPER_CSV>> :> CsvFile(2, 1, Header))
    @@ (<<DATA, NOTES_TXT>> :> Txt)
    @@ (<<DATA, README>> :> Txt)

WithArchive(entries) ==
  (<<DATA>> :> Dir) @@ (<<DATA, TOP_ZIP>> :> Zip(entries))

\* Every name a listing of the extracted tree can meet.
RECURSIVE NamesIn(_)
NamesIn(entries) ==
  UNION {Range(e.path)
           \cup IF e.content.kind = "zip"
                  THEN {Name(e.path[Len(e.path)].stem, "")} \cup NamesIn(e.content.entries)
                  ELSE {}
         : e \in entries}

Orders(S) ==
  {s \in [1..Cardinality(S) -> S] : \A i, j \in 1..Cardinality(S) : i # j => s[i] # s[j]}

NoCall == [path |-> <<>>, res |-> None, log |-> <<>>, found |-> <<>>, objs |-> <<>>,
           pre |-> <<>>]

Init ==
  /\ \/ \E n \in 0..MaxRows : fs = LooseFiles(n) /\ scanOrder = <<>>
     \/ \E z \in Archives : fs = WithArchive(z) /\ scanOrder \in Orders(NamesIn(z))
  /\ calls = 0
  /\ last = NoCall

\* One call from outside: get_ingestor(path).ingest(path).
IngestCall(path) ==
  /\ calls < MaxCalls
  /\ is_file(fs, path)
  /\ LET out == Ingest(path, fs, scanOrder, <<>>)
     IN  /\ fs' = out.fs
         /\ last' = [path |-> path, res |-> out.res, log |-> out.log,
                     found |-> out.found, objs |-> out.objs, pre |-> fs]
  /\ calls' = calls + 1
  /\ UNCHANGED scanOrder

Next == \E path \in DOMAIN fs : IngestCall(path)

Spec == Init /\ [][Next]_vars

(***************************************************************************)
(* Vocabulary of the properties                                            *)
(***************************************************************************)
Called == last.path # <<>>

\* The last call ingested an archive.
IsZipCall == Called /\ Suffix(last.path) = ".zip" /\ last.pre[last.path].kind = "zip"

Archive == last.pre[last.path].entries

RegularEntries(entries) == {e \in entries : e.content.kind # "dir"}

DataLines(content) == Tail(content.lines)

RECURSIVE SumRows(_)
SumRows(entries) ==
  IF entries = {} THEN 0
  ELSE LET e == CHOOSE x \in entries : TRUE
       IN  (IF e.content.kind = "csv" THEN Len(DataLines(e.content)) ELSE 0)
             + SumRows(entries \ {e})

\* The data lines of the csv files of an archive, nested archives included.
RECURSIVE AllLines(_)
AllLines(entries) ==
  UNION {IF e.content.kind = "csv" THEN Range(DataLines(e.content))
         ELSE IF e.content.kind = "zip" THEN AllLines(e.content.entries)
         ELSE {}
         : e \in entries}

\* Members directly in the archive, at every level, csv files or archives only.
RECURSIVE PlainNest(_)
PlainNest(entries) ==
  \A e \in entries :
    /\ Len(e.path) = 1
    /\ e.content.kind \in {"csv", "zip"}
    /\ e.content.kind = "zip" => (e.content.entries # {} /\ PlainNest(e.content.entries))

Occurrences(rows, r) == Cardinality({i \in 1..Len(rows) : rows[i] = r})

\* How many rows the per-file results before the i-th hold.
RECURSIVE Offset(_, _)
Offset(objs, i) ==
  IF i <= 1 THEN 0 ELSE Offset(objs, i - 1) + Len(objs[i - 1].rows)

Registered == {".zip", ".csv"}

\* C1: an archive holding csv files only ingests to a table with as many rows
\* as its csv files have together, whatever the extraction directory held.
C1_RowCountIsSum ==
  (/\ IsZipCall
   /\ RegularEntries(Archive) # {}
   /\ \A e \in RegularEntries(Archive) : Suffix(e.path) = ".csv")
  => (last.res.tag = "table" /\ Len(last.res.rows) = SumRows(Archive))

\* C2: an archive with no regular file raises FileNotFoundError before any
\* file is resolved or ingested.
C2_EmptyArchiveRaises ==
  (IsZipCall /\ RegularEntries(Archive) = {})
  => (/\ last.res = Raise("FileNotFoundError")
      /\ \A i \in 1..Len(last.log) : last.log[i].by # last.path)

\* C3: an archive holding archives ingests to a table in which every csv line
\* of every level occurs exactly once.
C3_NestedEachOnce ==
  (/\ IsZipCall
   /\ PlainNest(Archive)
   /\ \E e \in Archive : e.content.kind = "zip")
  => (/\ last.res.tag = "table"
      /\ Len(last.res.rows) = Cardinality(AllLines(Archive))
      /\ \A l \in AllLines(Archive) : Occurrences(last.res.rows, l) = 1)

\* C4: a path whose extension is not registered resolves, with the diagnostic
\* printed, to the unsupported ingestor, whose ingest returns None, raises
\* nothing and leaves the filesystem alone.
C4_UnsupportedIsNoOp ==
  (Called /\ Suffix(last.path) \notin Registered)
  => (/\ last.res = None
      /\ last.log = <<Event("resolve", last.path, <<>>), Event("print", last.path, <<>>),
                      Event("noop", last.path, <<>>)>>
      /\ fs = last.pre)

C4_Witness ==
  /\ Called
  /\ Suffix(last.path) = ".CSV"
  /\ last.res = None
  /\ calls = MaxCalls

C4_WitnessInArchive ==
  /\ Called
  /\ Suffix(last.path) = ".txt"
  /\ Len(last.path) = 3
  /\ last.res = None

\* C5: an archive with at least one regular file and no archive inside never
\* raises, also when none of its files has a registered extension.
C5_UnrecognizedNeverRaises ==
  (/\ IsZipCall
   /\ RegularEntries(Archive) # {}
   /\ \A e \in Archive : e.content.kind # "zip")
  => last.res.tag # "raise"

\* C6: ingesting the same unchanged archive twice in a row gives the same
\* result both times.
C6_SameResultTwice ==
  [][(/\ Called
      /\ Suffix(last.path) = ".zip"
      /\ last'.path = last.path
      /\ calls' = calls + 1
      /\ fs[last.path] = last.pre[last.path])
     => last'.res = last.res]_vars

\* C7: a csv file of N data lines resolves to the csv ingestor and ingests to
\* a table of N rows under the file's column names, the filesystem untouched.
C7_CsvRowsAndColumns ==
  (Called /\ Suffix(last.path) = ".csv" /\ last.pre[last.path].kind = "csv")
  => (/\ last.res.tag = "table"
      /\ Len(last.res.rows) = Len(last.pre[last.path].lines) - 1
      /\ last.res.cols = Head(last.pre[last.path].lines)
      /\ \A i \in 1..Len(last.res.rows) :
           last.res.rows[i] = last.pre[last.path].lines[i + 1]
      /\ last.log = <<Event("resolve", last.path, <<>>), Event("read", last.path, <<>>)>>
      /\ fs = last.pre)

C7_Witness ==
  /\ Called
  /\ Suffix(last.path) = ".csv"
  /\ last.res.tag = "table"
  /\ Len(last.res.rows) >= 2

\* C8 as claimed: in one call from outside no extraction follows a read.
C8_NoExtractAfterRead ==
  \A i, j \in 1..Len(last.log) :
    (i < j /\ last.log[i].ev = "read") => last.log[j].ev # "extract"

\* C8 as amended: a file read by an archive's ingestion is read after that
\* archive was extracted in the same call; and a call that extracts a single
\* archive extracts it before every read.
C8_OwnExtractionFirst ==
  /\ \A j \in 1..Len(last.log) :
       (last.log[j].ev = "read" /\ last.log[j].by # <<>>)
       => \E i \in 1..(j - 1) :
            last.log[i].ev = "extract" /\ last.log[i].path = last.log[j].by
  /\ Cardinality({i \in 1..Len(last.log) : last.log[i].ev = "extract"}) <= 1
     => C8_NoExtractAfterRead

C8_Witness ==
  /\ IsZipCall
  /\ last.res.tag = "table"
  /\ \E i, j \in 1..Len(last.log) :
       /\ i < j
       /\ last.log[i].ev = "read"
       /\ last.log[j].ev = "extract"
       /\ \E k \in (j + 1)..Len(last.log) :
            last.log[k].ev = "read" /\ last.log[k].by = last.log[j].path

\* C9: the table of an archive is its files' tables one after the other in
\* the order of enumeration, rows in file order, None contributing nothing.
C9_ConcatInEnumerationOrder ==
  (IsZipCall /\ last.res.tag = "table")
  => (/\ Len(last.objs) = Len(last.found)
      /\ Len(last.res.rows) = Offset(last.objs, Len(last.objs) + 1)
      /\ \A i \in 1..Len(last.objs) :
           /\ last.objs[i].tag = "none" => last.objs[i].rows = <<>>
           /\ (Suffix(last.found[i]) = ".csv" /\ is_file(last.pre, last.found[i]))
              => last.objs[i].rows = DataLines(last.pre[last.found[i]])
           /\ \A k \in 1..Len(last.objs[i].rows) :
                \A c \in 1..Len(last.objs[i].cols) :
                  last.res.rows[Offset(last.objs, i) + k]
                              [IndexOf(last.res.cols, last.objs[i].cols[c])]
                    = last.objs[i].rows[k][c])

C9_Witness ==
  /\ IsZipCall
  /\ last.res.tag = "table"
  /\ \E i, j, k \in 1..Len(last.objs) :
       /\ i < j /\ j < k
       /\ last.objs[i].tag = "table" /\ last.objs[i].rows # <<>>
       /\ last.objs[j].tag = "none"
       /\ last.objs[k].tag = "table" /\ last.objs[k].rows # <<>>

\* C10: a call creates files under its extraction directory only, deletes
\* nothing, and changes neither an archive nor anything outside that directory.
C10_OnlyExtractionDirectory ==
  Called
  => (/\ DOMAIN last.pre \subseteq DOMAIN fs
      /\ \A q \in DOMAIN fs \ DOMAIN last.pre : IsUnder(extracted_path(last.path), q)
      /\ \A q \in DOMAIN last.pre :
           (~IsUnder(extracted_path(last.path), q) \/ last.pre[q].kind = "zip")
           => fs[q] = last.pre[q])

C10_Witness ==
  /\ IsZipCall
  /\ last.res.tag = "table"
  /\ \E q \in DOMAIN fs \ DOMAIN last.pre :
       Len(q) > Len(extracted_path(last.path)) + 1

====
